---- MODULE Spec2Model ----
(***************************************************************************)
(* Model of the build-change monitor of src/index.ts: the checkTask        *)
(* pipeline (page fetch, script downloads, comparison with the KV record,  *)
(* diff, summary, Discord notification, KV update) and its pure helpers.   *)
(*                                                                         *)
(* Text is modelled as JavaScript models it: a string is a sequence of     *)
(* UTF-16 code units (numbers).  null/undefined of a string-valued         *)
(* expression is the empty tuple where the code only tests truthiness.     *)
(*                                                                         *)
(* The collaborators answer as they can: every request may reject, the     *)
(* page may answer a non-success status, every KV call may throw.  A KV    *)
(* read that returns gives the value last written.  Invocations do not     *)
(* overlap, and the site is redeployed between invocations.                *)
(***************************************************************************)
EXTENDS Integers, Sequences, FiniteSets, TLC

\* ------------------------------------------------------------------ bounds

\* A trigger starts a new run only while fewer than MaxAttempts notifier
\* calls were made for every build identifier (caps the attempt counters).
MaxAttempts == 2
\* The target site publishes the build identifiers 1..MaxBuild.
MaxBuild == 2

\* ------------------------------------------------------- program constants

\* /-[a-f0-9]{16,}\.js$/ : least number of hex characters of a hash suffix
MinHashLen == 16
\* x.length > 3
MinTokenLen == 3
\* added.slice(0, 40)
MaxListed == 40
\* diffSummary.substring(0, 3000)
MaxDiffLen == 3000

\* ------------------------------------------------------------ text helpers

\* '/_next/static/chunks/'
ChunkPrefix ==
    <<47, 95, 110, 101, 120, 116, 47, 115, 116, 97, 116, 105, 99, 47,
      99, 104, 117, 110, 107, 115, 47>>
\* '.js'
JsSuffix == <<46, 106, 115>>

HasPrefix(s, p) ==
    /\ Len(s) >= Len(p)
    /\ SubSeq(s, 1, Len(p)) = p

EndsWith(s, p) ==
    /\ Len(s) >= Len(p)
    /\ SubSeq(s, Len(s) - Len(p) + 1, Len(s)) = p

\* [a-f0-9]
IsHex(c) == c \in (97..102) \cup (48..57)

\* [a-zA-Z0-9_'"\u4e00-\u9fa5]
IsTokenChar(c) ==
    \/ c \in 97..122
    \/ c \in 65..90
    \/ c \in 48..57
    \/ c \in {95, 39, 34}
    \/ c \in 19968..40869

\* White space and line terminators removed by String.prototype.trim
IsSpace(c) ==
    c \in {9, 10, 11, 12, 13, 32, 160, 5760, 8232, 8233, 8239, 8287, 12288, 65279}
           \cup (8192..8202)

\* str.trim()
Trim(s) ==
    LET keep == {i \in 1..Len(s) : ~IsSpace(s[i])}
    IN  IF keep = {} THEN <<>>
        ELSE LET lo == CHOOSE i \in keep : \A k \in keep : i <= k
                 hi == CHOOSE i \in keep : \A k \in keep : i >= k
             IN  SubSeq(s, lo, hi)

\* str.substring(0, n)
Substring0(s, n) == IF Len(s) <= n THEN s ELSE SubSeq(s, 1, n)

\* ------------------------------------------- objects in insertion order

\* A Record<string, string> is the sequence of its <<key, value>> entries in
\* insertion order (the order of Object.entries and JSON.stringify).
Keys(obj) == {obj[i][1] : i \in 1..Len(obj)}

HasKey(obj, k) == \E i \in 1..Len(obj) : obj[i][1] = k

\* obj[k], where undefined is <<>> and a value v is <<v>>
Lookup(obj, k) ==
    IF HasKey(obj, k)
    THEN <<obj[CHOOSE i \in 1..Len(obj) : obj[i][1] = k][2]>>
    ELSE <<>>

\* obj[k] = v
SetKey(obj, k, v) ==
    IF HasKey(obj, k)
    THEN [i \in 1..Len(obj) |-> IF obj[i][1] = k THEN <<k, v>> ELSE obj[i]]
    ELSE Append(obj, <<k, v>>)

\* JSON.stringify(obj) of a string map: the entries in insertion order, as
\* one text value; a KV value that was never written reads as null = <<>>.
JSONstringify(obj) == <<[json |-> obj]>>

\* JSON.parse(text) of such a text
JSONparse(text) == text[1].json

\* ------------------------------------------------ Content Normalizer

\* The replacement with a pattern that takes a hash of any length:
\* path.replace(/-[a-f0-9]+\.js$/, '.js')
BaseNameAnyLength(path) ==
    LET n     == Len(path)
        cands == {i \in 1..n :
                    /\ path[i] = 45
                    /\ EndsWith(path, JsSuffix)
                    /\ (n - 3) - i >= 1
                    /\ \A j \in (i + 1)..(n - 3) : IsHex(path[j])}
    IN  IF cands = {} THEN path
        ELSE LET i == CHOOSE i \in cands : \A k \in cands : i <= k
             IN  SubSeq(path, 1, i - 1) \o JsSuffix

\* path.replace(/-[a-f0-9]{16,}\.js$/, '.js')
BaseName(path) ==
    LET n     == Len(path)
        cands == {i \in 1..n :
                    /\ path[i] = 45
                    /\ EndsWith(path, JsSuffix)
                    /\ (n - 3) - i >= MinHashLen
                    /\ \A j \in (i + 1)..(n - 3) : IsHex(path[j])}
    IN  IF cands = {} THEN path
        ELSE LET i == CHOOSE i \in cands : \A k \in cands : i <= k
             IN  SubSeq(path, 1, i - 1) \o JsSuffix

\* ------------------------------------------------------------- Differ

\* '\n[' + 4 ideographs ("added module") + '] '
AddedModuleOpen == <<10, 91, 26032, 22686, 27169, 32068, 93, 32>>
\* '\n--- ' + 4 ideographs ("module changed") + ': '
ChangedModuleOpen == <<10, 45, 45, 45, 32, 27169, 32068, 35722, 26356, 58, 32>>
\* ' ---\n'
ChangedModuleClose == <<32, 45, 45, 45, 10>>
\* '[' + "added keywords/strings" + ']: '
AddedTokensLabel ==
    <<91, 26032, 22686, 38364, 37749, 23383, 47, 23383, 20018, 93, 58, 32>>
\* '[' + "removed keywords/strings" + ']: '
RemovedTokensLabel ==
    <<91, 31227, 38500, 38364, 37749, 23383, 47, 23383, 20018, 93, 58, 32>>
\* ', '
JoinSeparator == <<44, 32>>
\* '\n'
NewLine == <<10>>

\* str.split(/[^a-zA-Z0-9_'"\u4e00-\u9fa5]+/): the pieces between maximal runs
\* of separator characters, empty first and last pieces included.
RECURSIVE SplitFrom(_, _, _, _, _)
SplitFrom(str, i, cur, inSep, acc) ==
    IF i > Len(str) THEN Append(acc, cur)
    ELSE IF IsTokenChar(str[i])
         THEN SplitFrom(str, i + 1, Append(cur, str[i]), FALSE, acc)
         ELSE IF inSep
              THEN SplitFrom(str, i + 1, cur, TRUE, acc)
              ELSE SplitFrom(str, i + 1, <<>>, TRUE, Append(acc, cur))

\* new Set(list): the distinct elements in first-seen order
RECURSIVE Distinct(_, _)
Distinct(list, acc) ==
    IF list = <<>> THEN acc
    ELSE Distinct(Tail(list),
                  IF \E i \in 1..Len(acc) : acc[i] = Head(list)
                  THEN acc ELSE Append(acc, Head(list)))

tokenize(str) == Distinct(SplitFrom(str, 1, <<>>, FALSE, <<>>), <<>>)

InList(list, x) == \E i \in 1..Len(list) : list[i] = x

\* The filter without its length test
TokensOnlyInUnfiltered(a, b) == SelectSeq(a, LAMBDA x : ~InList(b, x))

\* [...a].filter(x => !b.has(x) && x.length > 3)
TokensOnlyIn(a, b) ==
    SelectSeq(a, LAMBDA x : ~InList(b, x) /\ Len(x) > MinTokenLen)

\* list.join(sep)
RECURSIVE Join(_, _)
Join(list, sep) ==
    IF list = <<>> THEN <<>>
    ELSE IF Len(list) = 1 THEN list[1]
    ELSE list[1] \o sep \o Join(Tail(list), sep)

\* list.slice(0, n)
Slice0(list, n) == IF Len(list) <= n THEN list ELSE SubSeq(list, 1, n)

\* What one iteration of the loop of generateDiff appends to diffSummary
DiffBlock(oldFiles, path, newContent) ==
    LET oldContent == Lookup(oldFiles, path)
    IN  IF oldContent = <<>> \/ oldContent[1] = <<>>          \* !oldContent
        THEN AddedModuleOpen \o path \o NewLine
        ELSE IF oldContent[1] = newContent THEN <<>>
        ELSE LET oldTokens == tokenize(oldContent[1])
                 newTokens == tokenize(newContent)
                 added     == TokensOnlyIn(newTokens, oldTokens)
                 removed   == TokensOnlyIn(oldTokens, newTokens)
             IN  IF added = <<>> /\ removed = <<>> THEN <<>>
                 ELSE ChangedModuleOpen \o path \o ChangedModuleClose
                      \o (IF added # <<>>
                          THEN AddedTokensLabel
                               \o Join(Slice0(added, MaxListed), JoinSeparator)
                               \o NewLine
                          ELSE <<>>)
                      \o (IF removed # <<>>
                          THEN RemovedTokensLabel
                               \o Join(Slice0(removed, MaxListed), JoinSeparator)
                               \o NewLine
                          ELSE <<>>)

RECURSIVE DiffBlocks(_, _)
DiffBlocks(oldFiles, entries) ==
    IF entries = <<>> THEN <<>>
    ELSE DiffBlock(oldFiles, Head(entries)[1], Head(entries)[2])
         \o DiffBlocks(oldFiles, Tail(entries))

\* A differ that walks both maps: the modules of the new map against the old
\* one, then the modules of the old map against the new one.
generateDiffBothWays(oldFiles, newFiles) ==
    Substring0(DiffBlocks(oldFiles, newFiles) \o DiffBlocks(newFiles, oldFiles),
               MaxDiffLen)

\* A differ that returns its blocks whole
generateDiffUncut(oldFiles, newFiles) == DiffBlocks(oldFiles, newFiles)

\* generateDiff(oldFiles, newFiles): the blocks of the entries of the new map in
\* their order, cut at 3000 code units
generateDiff(oldFiles, newFiles) ==
    Substring0(DiffBlocks(oldFiles, newFiles), MaxDiffLen)

\* ---------------------------------------------------- Summarizer Client

\* The fixed sentence returned for an empty diff (23 code units)
SummaryTrivial ==
    <<20677, 26377, 24494, 23567, 35722, 26356, 25110, 36039, 28304, 27284,
      26356, 26032, 65292, 28961, 26126, 39023, 26989, 21209, 37007, 36655,
      35722, 21270, 12290>>
\* The fixed sentence returned when the response holds no usable completion
SummaryUnparsed ==
    <<28961, 27861, 35299, 26512, 26356, 26032, 20839, 23481, 12290>>
\* The fixed sentence returned when the call or the parse of its body throws
SummaryFailed ==
    <<65, 73, 32, 31777, 22577, 29983, 25104, 22833, 25943, 65292, 35531,
      25163, 21205, 26597, 30475, 35722, 26356, 12290>>

\* The guard of line 164 without its trim(): only the empty text is blank
CallsLlmUntrimmed(diffText) == diffText # <<>>

\* if (!diffText.trim()) return ...: whether getAIPatchSummary calls the service
CallsLlm(diffText) == Trim(diffText) # <<>>

\* What the service can answer: the POST rejects (transport failure), its body
\* is not JSON, the JSON holds no choices[0].message.content, or it holds the
\* text content.
LlmReplies ==
    {[kind |-> "reject", content |-> <<>>],
     [kind |-> "badJson", content |-> <<>>],
     [kind |-> "noContent", content |-> <<>>],
     [kind |-> "content", content |-> <<32, 10>>],
     [kind |-> "content", content |-> <<32, 102, 105, 120, 101, 100, 10>>]}

\* The value getAIPatchSummary returns for a reply of the service
SummaryOfReply(reply) ==
    IF reply.kind \in {"reject", "badJson"} THEN SummaryFailed
    ELSE IF reply.kind = "noContent" THEN SummaryUnparsed
    ELSE IF Trim(reply.content) = <<>> THEN SummaryUnparsed
    ELSE Trim(reply.content)

\* ------------------------------------------------------ the target site

\* A build identifier n stands for the token 'b<n>'; NULL is the null of
\* buildIdMatch ? buildIdMatch[1] : null and of a KV key never written (falsy).
NULL == 0

\* The build identifiers the target site publishes
BuildIds == 1..MaxBuild

\* The script sets the target site publishes
Versions == {1, 2, 3, 4}

\* '/_next/static/chunks/main-f771e2c1298902e1.js'
PathMainA ==
    ChunkPrefix \o <<109, 97, 105, 110, 45, 102, 55, 55, 49, 101, 50, 99, 49,
                     50, 57, 56, 57, 48, 50, 101, 49>> \o JsSuffix
\* '/_next/static/chunks/main-0a1b2c3d4e5f60718.js'
PathMainB ==
    ChunkPrefix \o <<109, 97, 105, 110, 45, 48, 97, 49, 98, 50, 99, 51, 100,
                     52, 101, 53, 102, 54, 48, 55, 49, 56>> \o JsSuffix
\* '/_next/static/chunks/app.js'
PathApp == ChunkPrefix \o <<97, 112, 112>> \o JsSuffix
\* '/favicon.js': a script outside the chunks directory
PathOther == <<47, 102, 97, 118, 105, 99, 111, 110>> \o JsSuffix

\* '/_next/static/chunks/lib-0123456789abcdef.js'
PathLib ==
    ChunkPrefix \o <<108, 105, 98, 45, 48, 49, 50, 51, 52, 53, 54, 55, 56, 57, 97, 98, 99, 100, 101, 102>> \o JsSuffix

\* The scripts of a version of the site, path and body:
\*   1: main-f771...js = 'init(alpha)', app.js = 'foo bar'
\*   2: main-0a1b...js = 'init(gamma)', app.js = 'foo baz qux'
\*   3: main-f771...js = 'init(alpha)', app.js = 'foo bar', lib-0123...js = ''
\*   4: main-f771...js = 'init(alpha)', main-0a1b...js = 'init(gamma)', two
\*      paths of one canonical name
SiteScripts(ver) ==
    IF ver = 1
    THEN <<<<PathMainA, <<105, 110, 105, 116, 40, 97, 108, 112, 104, 97, 41>>>>,
           <<PathApp, <<102, 111, 111, 32, 98, 97, 114>>>>>>
    ELSE IF ver = 2
    THEN <<<<PathMainB, <<105, 110, 105, 116, 40, 103, 97, 109, 109, 97, 41>>>>,
           <<PathApp, <<102, 111, 111, 32, 98, 97, 122, 32, 113, 117, 120>>>>>>
    ELSE IF ver = 3
    THEN <<<<PathMainA, <<105, 110, 105, 116, 40, 97, 108, 112, 104, 97, 41>>>>,
           <<PathApp, <<102, 111, 111, 32, 98, 97, 114>>>>,
           <<PathLib, <<>>>>>>
    ELSE <<<<PathMainA, <<105, 110, 105, 116, 40, 97, 108, 112, 104, 97, 41>>>>,
           <<PathMainB, <<105, 110, 105, 116, 40, 103, 97, 109, 109, 97, 41>>>>>>

\* '404': the body served for a path the site no longer holds
NotFoundBody == <<52, 48, 52>>

\* The body the site answers for a script path
ScriptBody(st, path) ==
    LET found == Lookup(SiteScripts(st.ver), path)
    IN  IF found = <<>> THEN NotFoundBody ELSE found[1]

\* The page markup, as the sequence of its parts the two patterns of
\* fetchPageData can meet: a "buildId":"<id>" marker (with an empty id where the
\* site publishes none) and the src="..." attributes of its script tags.
Html(st) ==
    <<[kind |-> "script", id |-> NULL, src |-> PathOther],
      [kind |-> "buildId", id |-> st.build, src |-> <<>>]>>
    \o [i \in 1..Len(SiteScripts(st.ver)) |->
          [kind |-> "script", id |-> NULL, src |-> SiteScripts(st.ver)[i][1]]]

\* ------------------------------------------------ Build Identifier Extractor

\* html.match(/"buildId":"([^"]+)"/): the first marker with a non-empty id
ExtractBuildId(html) ==
    LET hits == {i \in 1..Len(html) : html[i].kind = "buildId" /\ html[i].id # NULL}
    IN  IF hits = {} THEN NULL
        ELSE html[CHOOSE i \in hits : \A k \in hits : i <= k].id

\* /src="(\/_next\/static\/chunks\/[^"]+\.js)"/g
IsChunkSrc(src) ==
    /\ HasPrefix(src, ChunkPrefix)
    /\ EndsWith(src, JsSuffix)
    /\ Len(src) > Len(ChunkPrefix) + Len(JsSuffix)

\* [...html.matchAll(scriptRegex)].map(m => m[1])
ExtractScriptPaths(html) ==
    LET tags == SelectSeq(html, LAMBDA e : e.kind = "script" /\ IsChunkSrc(e.src))
    IN  [i \in 1..Len(tags) |-> tags[i].src]

\* What the page request can answer: the request rejects, or a response with a
\* status (ok or not) and the site's markup as its body.
PageReplies(st) ==
    {[kind |-> "reject", ok |-> FALSE, html |-> <<>>]}
    \cup {[kind |-> "response", ok |-> b, html |-> Html(st)] : b \in BOOLEAN}

\* fetchPageData with the ok test left out
fetchPageDataIgnoringStatus(reply) ==
    IF reply.kind = "reject"
    THEN [threw |-> TRUE, buildId |-> NULL, scriptPaths |-> <<>>]
    ELSE [threw |-> FALSE,
          buildId |-> ExtractBuildId(reply.html),
          scriptPaths |-> ExtractScriptPaths(reply.html)]

\* fetchPageData: throws when the request rejects or the status is not ok
fetchPageData(reply) ==
    IF reply.kind = "reject" \/ ~reply.ok
    THEN [threw |-> TRUE, buildId |-> NULL, scriptPaths |-> <<>>]
    ELSE [threw |-> FALSE,
          buildId |-> ExtractBuildId(reply.html),
          scriptPaths |-> ExtractScriptPaths(reply.html)]

\* ------------------------------------------------------------- checkTask

\* checkTask without its guard on the build identifier
MissingBuildIdIgnored(id) == FALSE

\* if (!buildId) return;
MissingBuildId(id) == id = NULL

\* The comparison without the first-run test: a store never written is a change
BranchNoBootstrap(current, last) ==
    IF current # last THEN "CHANGED" ELSE "NO_CHANGE"

\* The comparison with the test of the build identifiers always true
BranchAlwaysChanged(current, last) ==
    IF last = NULL THEN "BOOTSTRAP" ELSE "CHANGED"

\* The branch checkTask takes once both KV reads have returned:
\* if (!lastBuildId) ... else if (buildId !== lastBuildId) ... else ...
Branch(current, last) ==
    IF last = NULL THEN "BOOTSTRAP"
    ELSE IF current # last THEN "CHANGED"
    ELSE "NO_CHANGE"

\* checkTask refreshing the stored scripts when the build identifier is unchanged
NextStepRefreshing(br, step) ==
    CASE br = "BOOTSTRAP" ->
           (CASE step = "compare" -> "putId"
              [] step = "putId" -> "putFiles"
              [] OTHER -> "end")
      [] br = "CHANGED" ->
           (CASE step = "compare" -> "diff"
              [] step = "diff" -> "summary"
              [] step = "summary" -> "notify"
              [] step = "notify" -> "putId"
              [] step = "putId" -> "putFiles"
              [] OTHER -> "end")
      [] OTHER ->
           (CASE step = "compare" -> "putFiles"
              [] OTHER -> "end")

\* checkTask updating the KV record before it sends the notification
NextStepPersistFirst(br, step) ==
    CASE br = "BOOTSTRAP" ->
           (CASE step = "compare" -> "putId"
              [] step = "putId" -> "putFiles"
              [] OTHER -> "end")
      [] br = "CHANGED" ->
           (CASE step = "compare" -> "diff"
              [] step = "diff" -> "summary"
              [] step = "summary" -> "putId"
              [] step = "putId" -> "putFiles"
              [] step = "putFiles" -> "notify"
              [] OTHER -> "end")
      [] OTHER -> "end"

\* The statement order of checkTask after the comparison: the step that follows
\* `step` in branch `br` ("end": the function returns).
NextStep(br, step) ==
    CASE br = "BOOTSTRAP" ->
           (CASE step = "compare" -> "putId"
              [] step = "putId" -> "putFiles"
              [] OTHER -> "end")
      [] br = "CHANGED" ->
           (CASE step = "compare" -> "diff"
              [] step = "diff" -> "summary"
              [] step = "summary" -> "notify"
              [] step = "notify" -> "putId"
              [] step = "putId" -> "putFiles"
              [] OTHER -> "end")
      [] OTHER -> "end"

\* A catch block that logs the error and throws it again
checkTaskCatchRethrows == [logs |-> TRUE, rethrows |-> TRUE]

\* catch (error) { console.error(...) }: the error is logged and not rethrown
checkTaskCatch == [logs |-> TRUE, rethrows |-> FALSE]

\* A task whose catch block empties the map the tasks share
fetchJsTaskClearsOnError(files, path, rejected, content) ==
    IF rejected THEN <<>> ELSE SetKey(files, BaseName(path), content)

\* A task without its try/catch around the write: the entry is written
\* whether or not the download threw.
fetchJsTaskUnguarded(files, path, rejected, content) ==
    SetKey(files, BaseName(path), content)

\* One download task of fetchJsContents: files[baseName] = content, or the
\* rejected request logged and the path left out.
fetchJsTask(files, path, rejected, content) ==
    IF rejected THEN files ELSE SetKey(files, BaseName(path), content)

\* The payload fields sendDiscordNotification builds from its arguments
DiscordPayload(oldId, newId, text) ==
    [oldId |-> oldId, newId |-> newId, summary |-> text]

\* What the webhook POST can do: resolve with a success status, resolve with an
\* error status (fetch does not throw on it), or reject.
NotifyReplies == {"ok", "httpError", "reject"}

\* 'Old-Test-Build-123' and 'New-Test-Build-456' of the ?test=true switch
TestOldId == 123
TestNewId == 456
\* The text of the test notification (47 code units)
TestMessage ==
    <<36889, 26159, 19968, 26781, 28204, 35430, 35338, 24687, 65281, 22914,
      26524, 20320, 30475, 21040, 36889, 27573, 35441, 65292, 20195, 34920,
      32, 68, 105, 115, 99, 111, 114, 100, 32, 87, 101, 98, 104, 111, 111,
      107, 32, 20018, 25509, 23436, 20840, 25104, 21151, 22217, 32, 55357,
      56960>>

VARIABLES
    site,            \* the target site: [build, ver]
    kv,              \* MONITOR_KV: [id |-> LAST_BUILD_ID, files |-> LAST_JS_FILES]
    pc,              \* where the handler invocation stands ("idle": none runs)
    branch,          \* the branch the run took after the comparison
    buildId,         \* checkTask's locals
    scriptPaths,
    pending,         \* indexes of scriptPaths whose download has not settled
    currentJsFiles,
    lastBuildId,
    lastJsFiles,
    diffText,
    summary,
    discord,         \* the payloads this invocation POSTed to the webhook
    hostError,       \* the function whose promise rejected ("none": none did)
    errorLogged,     \* the run's catch block wrote its console.error
    threw,           \* history: the call of the run that threw ("none": none)
    outcome,         \* how the invocation ended ("RUNNING": it has not)
    trace,           \* history: the external calls and steps of the run, in order
    kvAtStart,       \* history: kv when the invocation started
    failed,          \* history: indexes of scriptPaths whose download threw
    attempts,        \* history: notifier calls of runs since the site last
                     \*          moved to another build identifier
    stable,          \* history: the state of the pipeline the last run ended
                     \*          in, if it did and the site has not changed
                     \*          since ("NO" otherwise)
    samePage         \* history: `stable` when this run started

locals ==
    <<buildId, scriptPaths, pending, currentJsFiles, lastBuildId, lastJsFiles,
      diffText, summary>>

vars ==
    <<site, kv, pc, branch, locals, discord, hostError, errorLogged, threw,
      outcome, trace, kvAtStart, failed, attempts, stable, samePage>>

\* The states of the pipeline a run can end in without an error thrown
PipelineStates == {"ABORTED", "BOOTSTRAP", "NO_CHANGE", "CHANGED"}

\* The locals of a call of checkTask that has not assigned any
InitLocals ==
    /\ buildId = NULL
    /\ scriptPaths = <<>>
    /\ pending = {}
    /\ currentJsFiles = <<>>
    /\ lastBuildId = NULL
    /\ lastJsFiles = <<>>
    /\ diffText = <<>>
    /\ summary = <<>>

\* A call of checkTask gets a frame of its own; its return discards it
NewFrame ==
    /\ buildId' = NULL
    /\ scriptPaths' = <<>>
    /\ pending' = {}
    /\ currentJsFiles' = <<>>
    /\ lastBuildId' = NULL
    /\ lastJsFiles' = <<>>
    /\ diffText' = <<>>
    /\ summary' = <<>>

Init ==
    /\ site \in [build : {NULL} \cup BuildIds, ver : Versions]
    /\ kv = [id |-> NULL, files |-> <<>>]
    /\ pc = "idle"
    /\ branch = "NONE"
    /\ InitLocals
    /\ discord = <<>>
    /\ hostError = "none"
    /\ errorLogged = FALSE
    /\ threw = "none"
    /\ outcome = "NONE"
    /\ trace = <<>>
    /\ kvAtStart = kv
    /\ failed = {}
    /\ attempts = 0
    /\ stable = "NO"
    /\ samePage = "NO"

\* The target site is redeployed: another build identifier (or none in the
\* markup), another script set, or both.  Deployments are taken between
\* invocations: a run reads the page and the scripts of one deployment.
Deploy ==
    \E st \in [build : {NULL} \cup BuildIds, ver : Versions] :
        /\ pc = "idle"
        /\ st # site
        /\ site' = st
        /\ attempts' = IF st.build # site.build THEN 0 ELSE attempts
        /\ stable' = "NO"
        /\ UNCHANGED <<kv, pc, branch, locals, discord, hostError, errorLogged,
                       threw, outcome, trace, kvAtStart, failed, samePage>>

\* checkTask(env) is called: a run starts.
StartRun ==
    /\ pc = "idle"
    /\ attempts < MaxAttempts
    /\ pc' = "fetchPage"
    /\ outcome' = "RUNNING"
    /\ samePage' = stable
    /\ UNCHANGED <<site, kv, branch, locals, discord, hostError, errorLogged,
                   threw, trace, kvAtStart, failed, attempts, stable>>

\* scheduled(): ctx.waitUntil(checkTask(env))
Scheduled == StartRun

\* fetch(): with ?test=true one test notification, awaited outside any try;
\* otherwise checkTask(env).
FetchHandler ==
    \E test \in BOOLEAN :
        IF test
        THEN /\ pc = "idle"
             /\ pc' = "done"
             /\ outcome' = "TEST"
             /\ \E reply \in NotifyReplies :
                    hostError' = IF reply = "reject" THEN "fetch" ELSE "none"
             /\ discord' = <<DiscordPayload(TestOldId, TestNewId, TestMessage)>>
             /\ UNCHANGED <<site, kv, branch, locals, errorLogged, threw,
                            trace, kvAtStart, failed, attempts, stable, samePage>>
        ELSE StartRun

\* The handler invocation is over: the promise passed to waitUntil has settled,
\* or the Response is returned.  Nothing of the invocation is kept in memory.
Return ==
    /\ pc = "done"
    /\ pc' = "idle"
    /\ branch' = "NONE"
    /\ NewFrame
    /\ discord' = <<>>
    /\ hostError' = "none"
    /\ errorLogged' = FALSE
    /\ threw' = "none"
    /\ outcome' = "NONE"
    /\ trace' = <<>>
    /\ kvAtStart' = kv
    /\ failed' = {}
    /\ stable' = IF outcome = "TEST" THEN stable
                 ELSE IF outcome \in PipelineStates THEN outcome ELSE "NO"
    /\ samePage' = "NO"
    /\ UNCHANGED <<site, kv, attempts>>

\* An error thrown inside the try block of checkTask reaches its catch block.
Caught(call) ==
    /\ pc' = "done"
    /\ outcome' = "FAILED"
    /\ threw' = call
    /\ errorLogged' = checkTaskCatch.logs
    /\ hostError' = IF checkTaskCatch.rethrows THEN "checkTask" ELSE hostError

\* The step after `step` is taken, or the function returns.
Advance(br, step) ==
    /\ pc' = IF NextStep(br, step) = "end" THEN "done" ELSE NextStep(br, step)
    /\ outcome' = IF NextStep(br, step) = "end" THEN br ELSE outcome
    /\ UNCHANGED <<errorLogged, hostError, threw>>

\* const { buildId, scriptPaths } = await fetchPageData(env.TARGET_URL);
\* if (!buildId) return;
FetchPage ==
    /\ pc = "fetchPage"
    /\ \E reply \in PageReplies(site) :
         LET r == fetchPageData(reply)
         IN  /\ trace' = Append(trace,
                    IF reply.kind = "reject" THEN "pageReject"
                    ELSE IF reply.ok THEN "pageOk" ELSE "pageNotOk")
             /\ IF r.threw
                THEN /\ Caught("page")
                     /\ UNCHANGED locals
                ELSE /\ buildId' = r.buildId
                     /\ scriptPaths' = r.scriptPaths
                     /\ UNCHANGED <<currentJsFiles, lastBuildId, lastJsFiles,
                                    diffText, summary, errorLogged, hostError, threw>>
                     /\ IF MissingBuildId(r.buildId)
                        THEN /\ pc' = "done"
                             /\ outcome' = "ABORTED"
                             /\ pending' = {}
                        ELSE /\ pc' = IF r.scriptPaths = <<>> THEN "getId"
                                      ELSE "download"
                             /\ outcome' = outcome
                             /\ pending' = 1..Len(r.scriptPaths)
    /\ UNCHANGED <<site, kv, branch, discord, kvAtStart, failed, attempts, stable,
                   samePage>>

\* fetchJsContents: one of the concurrent download tasks settles; Promise.all
\* resolves when the last one has.
Download ==
    /\ pc = "download"
    /\ \E i \in pending, rejected \in BOOLEAN :
         /\ currentJsFiles' = fetchJsTask(currentJsFiles, scriptPaths[i], rejected,
                                          ScriptBody(site, scriptPaths[i]))
         /\ pending' = pending \ {i}
         /\ failed' = IF rejected THEN failed \cup {i} ELSE failed
         /\ pc' = IF pending = {i} THEN "getId" ELSE "download"
    /\ trace' = Append(trace, "download")
    /\ UNCHANGED <<site, kv, branch, buildId, scriptPaths, lastBuildId,
                   lastJsFiles, diffText, summary, discord, hostError,
                   errorLogged, threw, outcome, kvAtStart, attempts, stable,
                   samePage>>

\* const lastBuildId = await env.MONITOR_KV.get('LAST_BUILD_ID');
KvGetBuildId ==
    /\ pc = "getId"
    /\ trace' = Append(trace, "getId")
    /\ \E ok \in BOOLEAN :
         IF ok
         THEN /\ lastBuildId' = kv.id
              /\ pc' = "getFiles"
              /\ UNCHANGED <<outcome, errorLogged, hostError, threw>>
         ELSE /\ Caught("getId")
              /\ UNCHANGED lastBuildId
    /\ UNCHANGED <<site, kv, branch, buildId, scriptPaths, pending,
                   currentJsFiles, lastJsFiles, diffText, summary, discord,
                   kvAtStart, failed, attempts, stable, samePage>>

\* const lastJsFilesStr = await env.MONITOR_KV.get('LAST_JS_FILES');
\* const lastJsFiles = lastJsFilesStr ? JSON.parse(lastJsFilesStr) : {};
\* followed by the comparison of the build identifiers.
KvGetFiles ==
    /\ pc = "getFiles"
    /\ trace' = Append(trace, "getFiles")
    /\ \E ok \in BOOLEAN :
         IF ok
         THEN /\ lastJsFiles' = IF kv.files = <<>> THEN <<>> ELSE JSONparse(kv.files)
              /\ branch' = Branch(buildId, lastBuildId)
              /\ Advance(Branch(buildId, lastBuildId), "compare")
         ELSE /\ Caught("getFiles")
              /\ UNCHANGED <<lastJsFiles, branch>>
    /\ UNCHANGED <<site, kv, buildId, scriptPaths, pending, currentJsFiles,
                   lastBuildId, diffText, summary, discord, kvAtStart, failed,
                   attempts, stable, samePage>>

\* const diffText = generateDiff(lastJsFiles, currentJsFiles);
Diff ==
    /\ pc = "diff"
    /\ trace' = Append(trace, "diff")
    /\ diffText' = generateDiff(lastJsFiles, currentJsFiles)
    /\ Advance(branch, "diff")
    /\ UNCHANGED <<site, kv, branch, buildId, scriptPaths, pending,
                   currentJsFiles, lastBuildId, lastJsFiles, summary, discord,
                   kvAtStart, failed, attempts, stable, samePage>>

\* const summary = await getAIPatchSummary(diffText, env);
Summarize ==
    /\ pc = "summary"
    /\ IF CallsLlm(diffText)
       THEN \E reply \in LlmReplies :
              /\ summary' = SummaryOfReply(reply)
              /\ trace' = trace \o <<"llm", "summary">>
       ELSE /\ summary' = SummaryTrivial
            /\ trace' = Append(trace, "summary")
    /\ Advance(branch, "summary")
    /\ UNCHANGED <<site, kv, branch, buildId, scriptPaths, pending,
                   currentJsFiles, lastBuildId, lastJsFiles, diffText, discord,
                   kvAtStart, failed, attempts, stable, samePage>>

\* await sendDiscordNotification(lastBuildId, buildId, summary, env);
Notify ==
    /\ pc = "notify"
    /\ discord' = Append(discord, DiscordPayload(lastBuildId, buildId, summary))
    /\ attempts' = attempts + 1
    /\ \E reply \in NotifyReplies :
         /\ trace' = IF reply = "httpError"
                     THEN trace \o <<"notify", "httpError">>
                     ELSE Append(trace, "notify")
         /\ IF reply = "reject" THEN Caught("notify")
            ELSE Advance(branch, "notify")
    /\ UNCHANGED <<site, kv, branch, locals, kvAtStart, failed, stable, samePage>>

\* await env.MONITOR_KV.put('LAST_BUILD_ID', buildId);
KvPutBuildId ==
    /\ pc = "putId"
    /\ trace' = Append(trace, "putId")
    /\ \E ok \in BOOLEAN :
         IF ok
         THEN /\ kv' = [kv EXCEPT !.id = buildId]
              /\ Advance(branch, "putId")
         ELSE /\ Caught("putId")
              /\ UNCHANGED kv
    /\ UNCHANGED <<site, branch, locals, discord, kvAtStart, failed, attempts, stable,
                   samePage>>

\* await env.MONITOR_KV.put('LAST_JS_FILES', JSON.stringify(currentJsFiles));
KvPutFiles ==
    /\ pc = "putFiles"
    /\ trace' = Append(trace, "putFiles")
    /\ \E ok \in BOOLEAN :
         IF ok
         THEN /\ kv' = [kv EXCEPT !.files = JSONstringify(currentJsFiles)]
              /\ Advance(branch, "putFiles")
         ELSE /\ Caught("putFiles")
              /\ UNCHANGED kv
    /\ UNCHANGED <<site, branch, locals, discord, kvAtStart, failed, attempts, stable,
                   samePage>>

Next ==
    \/ Deploy
    \/ Scheduled
    \/ FetchHandler
    \/ Return
    \/ FetchPage
    \/ Download
    \/ KvGetBuildId
    \/ KvGetFiles
    \/ Diff
    \/ Summarize
    \/ Notify
    \/ KvPutBuildId
    \/ KvPutFiles

Spec == Init /\ [][Next]_vars

\* ------------------------------------------------------------ the claims

\* A run of checkTask has ended (the test switch of fetch() is no run)
RunEnded == pc = "done" /\ outcome # "TEST"

\* The run made the call or step `ev`
Ran(ev) == InList(trace, ev)

\* The Snapshot of the run as the store holds it once persisted
Snapshot == [id |-> buildId, files |-> JSONstringify(currentJsFiles)]

\* The steps of the run after the comparison, without the marker of the
\* summarization call
StepsAfterCompare ==
    SelectSeq(trace, LAMBDA ev : ev \in {"diff", "summary", "notify", "putId", "putFiles"})

IsPrefixOf(a, b) == Len(a) <= Len(b) /\ SubSeq(b, 1, Len(a)) = a

\* C1: a run that finds a build identifier while the store holds no
\* LAST_BUILD_ID calls neither the Notifier nor the summarization service, and
\* ends in BOOTSTRAP with the store holding the run's buildId and scripts map
\* (the only other end is an error thrown by a call of the run).
C1_BootstrapWritesAndStaysSilent ==
    (RunEnded /\ buildId # NULL /\ kvAtStart.id = NULL) =>
        /\ ~Ran("notify")
        /\ ~Ran("llm")
        /\ discord = <<>>
        /\ outcome \in {"BOOTSTRAP", "FAILED"}
        /\ outcome = "FAILED" => threw # "none"
        /\ outcome = "BOOTSTRAP" => kv = Snapshot /\ trace[Len(trace)] = "putFiles"

C1_Witness ==
    /\ RunEnded
    /\ kvAtStart.id = NULL
    /\ outcome = "BOOTSTRAP"
    /\ kv.id = buildId
    /\ Len(currentJsFiles) = 2
    /\ kv.files = JSONstringify(currentJsFiles)

\* C2: a run that finds the buildId the store holds as LAST_BUILD_ID writes
\* nothing to the store and sends no notification, whatever scripts it fetched,
\* and ends in NO_CHANGE (the only other end is a store read that threw).
C2_BuildIdIsSoleTrigger ==
    (RunEnded /\ buildId # NULL /\ kvAtStart.id = buildId) =>
        /\ kv = kvAtStart
        /\ ~Ran("putId") /\ ~Ran("putFiles")
        /\ ~Ran("notify") /\ ~Ran("llm")
        /\ discord = <<>>
        /\ outcome \in {"NO_CHANGE", "FAILED"}
        /\ outcome = "FAILED" => threw \in {"getId", "getFiles"}

\* A NO_CHANGE run whose fetched scripts differ from the stored ones in a way
\* the Differ would report
C2_Witness ==
    /\ RunEnded
    /\ outcome = "NO_CHANGE"
    /\ kv.files # <<>>
    /\ kv.files # JSONstringify(currentJsFiles)
    /\ generateDiff(lastJsFiles, currentJsFiles) # <<>>

\* C3: in a CHANGED run the steps are taken in the order diff, summary,
\* notification, write of LAST_BUILD_ID, write of LAST_JS_FILES: at every
\* moment the steps taken so far are a prefix of that order (so no store write
\* precedes the notification attempt), and a run that ends in CHANGED took all.
C3_ChangedOrder ==
    branch = "CHANGED" =>
        /\ IsPrefixOf(StepsAfterCompare,
                      <<"diff", "summary", "notify", "putId", "putFiles">>)
        /\ (RunEnded /\ outcome = "CHANGED") =>
               StepsAfterCompare = <<"diff", "summary", "notify", "putId", "putFiles">>
        /\ ~Ran("notify") => kv = kvAtStart

C3_Witness ==
    /\ RunEnded
    /\ outcome = "CHANGED"
    /\ Ran("llm")
    /\ kv = Snapshot
    /\ kv # kvAtStart
\* C4 (as claimed): in a CHANGED run a failed notification call (the POST
\* rejects, or resolves with an error status) does not keep the run from
\* persisting the new buildId and scripts, unless a store write itself throws.
C4_NotifyFailureStillPersists ==
    (/\ RunEnded
     /\ branch = "CHANGED"
     /\ threw = "notify" \/ (Ran("httpError") /\ threw = "none")) =>
        kv = Snapshot

\* C5 (as claimed): while the site stays at one build identifier the Notifier
\* is called at most once.
C5_AtMostOneAttemptPerTransition == attempts <= 1

\* C6 (as claimed): after a run has ended the store holds LAST_BUILD_ID and
\* LAST_JS_FILES of one Snapshot: both as before the run, or both of the run.
C6_NeverPartiallyUpdated ==
    RunEnded => (kv = kvAtStart \/ kv = Snapshot)

\* C7: a run whose page markup holds no build identifier ends in ABORTED with
\* the page request as its only call: no download, no store read or write, no
\* notification; and every later step of any run has a build identifier.
C7_MissingBuildIdAborts ==
    /\ (RunEnded /\ Ran("pageOk") /\ site.build = NULL) =>
          /\ outcome = "ABORTED"
          /\ trace = <<"pageOk">>
          /\ kv = kvAtStart
          /\ discord = <<>>
          /\ currentJsFiles = <<>>
    /\ Len(trace) > 1 => buildId # NULL
    /\ kv.id = NULL => kv.files = <<>>

C7_Witness ==
    /\ RunEnded
    /\ outcome = "ABORTED"
    /\ site.build = NULL
    /\ kv.id # NULL
    /\ scriptPaths # <<>>

\* C8: a run whose page request answers a non-success status ends in the catch
\* block with the page request as its only call: the store is unchanged and
\* neither the summarization service nor the Notifier is called.
C8_FetchErrorAborts ==
    (RunEnded /\ Ran("pageNotOk")) =>
        /\ outcome = "FAILED"
        /\ threw = "page"
        /\ errorLogged
        /\ trace = <<"pageNotOk">>
        /\ kv = kvAtStart
        /\ discord = <<>>

\* The site shows a build the store does not hold, and the run reports nothing
C8_Witness ==
    /\ RunEnded
    /\ Ran("pageNotOk")
    /\ site.build # NULL
    /\ kv.id # NULL
    /\ site.build # kv.id

\* C9: no error leaves checkTask: a run in which a call throws (page fetch,
\* store read or write, notification) ends in the catch block, logged, with
\* nothing rethrown to the handler; and a run starts from fresh locals, with
\* nothing kept of the run before it but the store.
C9_ErrorsLoggedAndSwallowed ==
    /\ hostError # "checkTask"
    /\ threw # "none" => (pc = "done" /\ outcome = "FAILED" /\ errorLogged)
    /\ (RunEnded /\ outcome = "FAILED") => threw # "none"
    /\ pc \in {"idle", "fetchPage"} =>
          /\ InitLocals
          /\ branch = "NONE"
          /\ trace = <<>>
          /\ kvAtStart = kv
          /\ failed = {}
          /\ threw = "none"

C9_Witness ==
    /\ RunEnded
    /\ outcome = "FAILED"
    /\ threw = "putFiles"
    /\ branch = "CHANGED"
    /\ errorLogged

Succeeded == (1..Len(scriptPaths)) \ (pending \cup failed)

\* The canonical names of the requested paths are pairwise distinct
DistinctNames ==
    \A i, j \in 1..Len(scriptPaths) :
        BaseName(scriptPaths[i]) = BaseName(scriptPaths[j]) => i = j

\* C11: a download that throws is caught inside its own task: whichever
\* downloads of a run fail, the map under construction holds an entry under
\* exactly the canonical names of the downloads that succeeded, each with the
\* body of a succeeded download of that name, and as many entries as there are
\* succeeded downloads when the requested names are distinct; the failure is
\* not the error of the run, which ends in a state of the pipeline unless
\* another call throws, and what it persists is that partial map.
C11_DownloadFailuresIsolated ==
    /\ outcome # "ABORTED" =>
          /\ Keys(currentJsFiles) = {BaseName(scriptPaths[i]) : i \in Succeeded}
          /\ \A e \in 1..Len(currentJsFiles) :
                \E i \in Succeeded :
                   /\ currentJsFiles[e][1] = BaseName(scriptPaths[i])
                   /\ currentJsFiles[e][2] = ScriptBody(site, scriptPaths[i])
          /\ DistinctNames => Len(currentJsFiles) = Cardinality(Succeeded)
    /\ (failed # {} /\ pc \notin {"idle", "fetchPage", "download"}) =>
          /\ pending = {}
          /\ threw \in {"none", "getId", "getFiles", "notify", "putId", "putFiles"}
          /\ (RunEnded /\ threw = "none") =>
                /\ outcome \in {"BOOTSTRAP", "NO_CHANGE", "CHANGED"}
                /\ outcome # "NO_CHANGE" => kv = Snapshot

\* Three paths requested, one download failed: two entries, and the run went
\* on to persist them.
C11_Witness ==
    /\ RunEnded
    /\ outcome = "CHANGED"
    /\ Len(scriptPaths) = 3
    /\ Cardinality(failed) = 1
    /\ Len(currentJsFiles) = 2
    /\ kv = Snapshot

\* ------------------------------------------------ getAIPatchSummary, claims

\* The longest diff text handed to getAIPatchSummary on its own
MaxTextLen == 3

\* The code units of those texts: space, line feed, ideographic space, 'a'
TextUnits == {32, 10, 12288, 97}

Texts == UNION {[1..n -> TextUnits] : n \in 0..MaxTextLen}

\* Every code unit of the text is white space or a line terminator
WhitespaceOnly(s) == \A i \in 1..Len(s) : IsSpace(s[i])

\* The variables outside the frame of checkTask, the store and the branch
\* taken, in a run under way while the page shows build 2.
RunUnderWay ==
    /\ site = [build |-> 2, ver |-> 1]
    /\ discord = <<>>
    /\ hostError = "none"
    /\ errorLogged = FALSE
    /\ threw = "none"
    /\ outcome = "RUNNING"
    /\ trace = <<>>
    /\ kvAtStart = kv
    /\ failed = {}
    /\ attempts = 0
    /\ stable = "NO"
    /\ samePage = "NO"

\* getAIPatchSummary(diffText, env) is called with any text
InitSummarizer ==
    /\ kv = [id |-> 1, files |-> JSONstringify(<<>>)]
    /\ RunUnderWay
    /\ branch = "CHANGED"
    /\ pc = "summary"
    /\ buildId = 2
    /\ scriptPaths = <<>>
    /\ pending = {}
    /\ currentJsFiles = <<>>
    /\ lastBuildId = 1
    /\ lastJsFiles = <<>>
    /\ diffText \in Texts
    /\ summary = <<>>

SpecSummarizer == InitSummarizer /\ [][Summarize]_vars

\* C12: for a diff text that is empty or holds white space only,
\* getAIPatchSummary returns the fixed sentence of line 164 and has made no
\* request to the summarization service.
C12_BlankDiffSkipsService ==
    (pc = "notify" /\ WhitespaceOnly(diffText)) =>
        /\ summary = SummaryTrivial
        /\ ~Ran("llm")

\* The function has returned for a text of white space that is not empty
C12_Witness ==
    /\ pc = "notify"
    /\ diffText # <<>>
    /\ WhitespaceOnly(diffText)
    /\ summary = SummaryTrivial
    /\ ~Ran("llm")

\* The summarization service was called and getAIPatchSummary returned one of
\* its two fallback sentences (line 191: the call threw; line 188: no content)
LlmFailed == Ran("llm") /\ summary \in {SummaryFailed, SummaryUnparsed}

\* C13 (as claimed): a CHANGED run whose summarization call failed goes on:
\* it sends the notification with the fallback sentence and then persists the
\* new Snapshot, unless a store write itself throws.
C13_SummarizerFailureStillPersists ==
    (/\ RunEnded
     /\ branch = "CHANGED"
     /\ LlmFailed
     /\ threw \notin {"putId", "putFiles"}) =>
        /\ discord = <<DiscordPayload(lastBuildId, buildId, summary)>>
        /\ kv = Snapshot

\* ------------------------------------------------------ generateDiff, claims

\* 'main.js' under the chunks directory, the canonical name of both main paths
NameMain == BaseName(PathMainA)

\* A canonical name of MaxDiffLen letters 'a' under the chunks directory: the
\* line of one module of that name is longer than the whole diff may be
NameLong == ChunkPrefix \o [i \in 1..MaxDiffLen |-> 97] \o JsSuffix

\* The bodies of the modules the differ is given on its own:
\* '', 'foo bar', 'foo baz qux', 'init(alpha)', 'init(gamma)'
Bodies ==
    {<<>>,
     <<102, 111, 111, 32, 98, 97, 114>>,
     <<102, 111, 111, 32, 98, 97, 122, 32, 113, 117, 120>>,
     <<105, 110, 105, 116, 40, 97, 108, 112, 104, 97, 41>>,
     <<105, 110, 105, 116, 40, 103, 97, 109, 109, 97, 41>>}

\* The maps that hold some of the names, in the order given, with any bodies
RECURSIVE MapsOver(_)
MapsOver(names) ==
    IF names = <<>> THEN {<<>>}
    ELSE LET rest == MapsOver(Tail(names))
         IN  rest \cup {<<<<Head(names), c>>>> \o m : c \in Bodies, m \in rest}

\* The maps read from the store
OldMaps ==
    MapsOver(<<PathApp, NameMain>>)
    \cup {<<<<NameLong, c>>>> : c \in {<<>>, <<102, 111, 111, 32, 98, 97, 114>>}}

\* The maps fetchJsContents returns, in either order of completion
NewMaps ==
    MapsOver(<<PathApp, NameMain>>) \cup MapsOver(<<NameMain, PathApp>>)
    \cup {Append(m, <<NameLong, <<102, 111, 111, 32, 98, 97, 114>>>>) : m \in MapsOver(<<PathApp>>)}

\* generateDiff(lastJsFiles, currentJsFiles) is called with any two maps
InitDiffer ==
    /\ lastJsFiles \in OldMaps
    /\ currentJsFiles \in NewMaps
    /\ kv = [id |-> 1, files |-> JSONstringify(lastJsFiles)]
    /\ RunUnderWay
    /\ branch = "CHANGED"
    /\ pc = "diff"
    /\ buildId = 2
    /\ scriptPaths = <<>>
    /\ pending = {}
    /\ lastBuildId = 1
    /\ diffText = <<>>
    /\ summary = <<>>

SpecDiffer == InitDiffer /\ [][Diff]_vars

\* Two maps hold the same under each name of a set
SameOn(a, b, names) == \A k \in names : Lookup(a, k) = Lookup(b, k)

\* The text holds the part somewhere
Contains(text, part) ==
    \E i \in 1..(Len(text) - Len(part) + 1) :
        SubSeq(text, i, i + Len(part) - 1) = part

\* The text holds the opening of an entry for the module: of an "added
\* module" line or of a "module changed" block
HasEntryFor(text, path) ==
    \/ Contains(text, AddedModuleOpen \o path)
    \/ Contains(text, ChangedModuleOpen \o path)

\* C14: a module of the old map that the new map does not hold has no entry in
\* the diff text, and the text is the one generateDiff gives for every old map
\* that holds the same under the names of the new map: only the modules of the
\* new map determine it.
C14_RemovedModulesAreSilent ==
    pc = "summary" =>
        /\ \A k \in Keys(lastJsFiles) \ Keys(currentJsFiles) :
              ~HasEntryFor(diffText, k)
        /\ \A other \in OldMaps :
              SameOn(other, lastJsFiles, Keys(currentJsFiles)) =>
                  generateDiff(other, currentJsFiles) = diffText

\* The differ has run on an old map with a module the new map lacks, next to
\* a module that changed
C14_Witness ==
    /\ pc = "summary"
    /\ Keys(lastJsFiles) \ Keys(currentJsFiles) # {}
    /\ diffText # <<>>

\* The tokens of a text, as a set
TokenSet(str) == LET tokens == tokenize(str) IN {tokens[i] : i \in DOMAIN tokens}

\* The tokens that one of two texts holds and the other does not
Differing(a, b) == (TokenSet(a) \ TokenSet(b)) \cup (TokenSet(b) \ TokenSet(a))

\* The text lists the token in an "added" or a "removed" list: the token stands
\* between a label or a separator and a separator or the end of the line
ListsToken(text, t) ==
    \E open \in {AddedTokensLabel, RemovedTokensLabel, JoinSeparator},
       close \in {JoinSeparator, NewLine} :
        Contains(text, open \o t \o close)

\* C15: in the text generateDiff returns no list holds a token of 3 code units
\* or fewer, the empty token included; and a module whose content differs from
\* a stored content only in such tokens has no "module changed" block.
C15_ShortTokensFiltered ==
    pc = "summary" =>
        \A e \in 1..Len(currentJsFiles) :
            LET path       == currentJsFiles[e][1]
                newContent == currentJsFiles[e][2]
                oldContent == Lookup(lastJsFiles, path)
            IN  (oldContent # <<>> /\ oldContent[1] # newContent) =>
                   /\ \A t \in TokenSet(oldContent[1]) \cup TokenSet(newContent) :
                         Len(t) <= 3 => ~ListsToken(diffText, t)
                   /\ (\A t \in Differing(oldContent[1], newContent) : Len(t) <= 3)
                         => ~Contains(diffText, ChangedModuleOpen \o path)

\* The differ has run on 'foo bar' against 'foo baz qux' alone: nothing emitted
C15_Witness ==
    /\ pc = "summary"
    /\ lastJsFiles = <<<<PathApp, <<102, 111, 111, 32, 98, 97, 114>>>>>>
    /\ currentJsFiles =
          <<<<PathApp, <<102, 111, 111, 32, 98, 97, 122, 32, 113, 117, 120>>>>>>
    /\ diffText = <<>>

\* C16: the text generateDiff returns holds at most 3000 code units.
C16_DiffTextBounded == Len(diffText) <= 3000

\* The differ has returned the first 3000 code units of blocks that hold more
C16_Witness ==
    /\ pc = "summary"
    /\ Len(DiffBlocks(lastJsFiles, currentJsFiles)) > 3000
    /\ diffText = SubSeq(DiffBlocks(lastJsFiles, currentJsFiles), 1, 3000)

\* ------------------------------------------------ canonical names, claims

\* The script paths handed to one download task on their own: a stem, a
\* separator, a run of one digit (or of two in turn), an extension.
\* Stems 'main' and 'pages/a-b' under the chunks directory.
Stems == {ChunkPrefix \o <<109, 97, 105, 110>>, ChunkPrefix \o <<112, 97, 103, 101, 115, 47, 97, 45, 98>>}

\* '-' and '.'
Separators == {<<45>>, <<46>>}

\* The lengths of the runs: around the least length the pattern takes
RunLens == {MinHashLen - 1, MinHashLen, MinHashLen + 1}

\* The runs: of '0', of 'f', of 'F', of 'g', and of 'a' and '9' in turn
Runs ==
    {[i \in 1..n |-> d] : n \in RunLens, d \in {48, 102, 70, 103}}
    \cup {[i \in 1..n |-> IF i % 2 = 1 THEN 97 ELSE 57] : n \in RunLens}
    \cup {<<>>}

\* '.js' and '.jsx'
Extensions == {JsSuffix, <<46, 106, 115, 120>>}

Paths ==
    {stem \o sep \o run \o ext :
        stem \in Stems, sep \in Separators, run \in Runs, ext \in Extensions}
    \cup {PathMainA, PathMainB, PathApp, PathLib}

\* fetchJsContents(origin, [path]) is called with any one path
InitNormalizer ==
    /\ kv = [id |-> NULL, files |-> <<>>]
    /\ RunUnderWay
    /\ branch = "NONE"
    /\ pc = "download"
    /\ buildId = 2
    /\ scriptPaths \in {<<p>> : p \in Paths}
    /\ pending = {1}
    /\ currentJsFiles = <<>>
    /\ lastBuildId = NULL
    /\ lastJsFiles = <<>>
    /\ diffText = <<>>
    /\ summary = <<>>

SpecNormalizer == InitNormalizer /\ [][Download]_vars

\* The digits 0-9 and a-f; with A-F, every hexadecimal digit
LowerHex == (48..57) \cup (97..102)
AnyHex == LowerHex \cup (65..70)

\* Where the path splits as name, '-', 16 or more of the digits, '.js': the
\* positions of that '-'
HashSplits(path, digits) ==
    {i \in 1..Len(path) :
        /\ path[i] = 45
        /\ EndsWith(path, JsSuffix)
        /\ Len(path) - 3 - i >= 16
        /\ \A j \in (i + 1)..(Len(path) - 3) : path[j] \in digits}

\* The name under which the one download of the run was stored is name.js
\* where the path splits with the digits, and the path where it does not
StoredUnderCanonicalName(digits) ==
    (pc = "getId" /\ Len(scriptPaths) = 1 /\ Len(currentJsFiles) = 1) =>
        LET path   == scriptPaths[1]
            splits == HashSplits(path, digits)
            stored == currentJsFiles[1][1]
        IN  IF splits = {} THEN stored = path
            ELSE \E i \in splits : stored = SubSeq(path, 1, i - 1) \o JsSuffix

\* C17 (as claimed): a path name-<16 or more hexadecimal digits>.js is stored
\* under name.js, and a path without such a suffix under itself.
C17_HexSuffixStripped == StoredUnderCanonicalName(AnyHex)

\* C17 (amended): a path name-<16 or more digits out of 0-9 and a-f>.js is
\* stored under name.js, and a path without such a suffix under itself: a
\* suffix with a digit out of A-F is not taken off.
C17_LowerHexSuffixStripped == StoredUnderCanonicalName(LowerHex)

\* A download was stored under a name shorter than its path
C17_Witness ==
    /\ pc = "getId"
    /\ Len(scriptPaths) = 1
    /\ Len(currentJsFiles) = 1
    /\ HashSplits(scriptPaths[1], LowerHex) # {}
    /\ currentJsFiles[1][1] # scriptPaths[1]

\* C18 (as claimed): where the text was not cut, a module of the new map has
\* an "added module" line exactly when the old map does not hold its name, and
\* a module that both maps hold with the same content, the empty content
\* included, has no entry at all.
C18_AddedExactlyWhenAbsent ==
    (pc = "summary" /\ Len(diffText) < MaxDiffLen) =>
        \A e \in 1..Len(currentJsFiles) :
            LET path       == currentJsFiles[e][1]
                newContent == currentJsFiles[e][2]
                oldContent == Lookup(lastJsFiles, path)
            IN  /\ Contains(diffText, AddedModuleOpen \o path \o NewLine)
                      <=> oldContent = <<>>
                /\ (oldContent # <<>> /\ oldContent[1] = newContent)
                      => ~HasEntryFor(diffText, path)

\* ------------------------------------------------ hung calls, claim

\* The steps at which a run waits for the page fetch, a script download, the
\* summarization call or the notification call to return
AwaitingExternalCall == pc \in {"fetchPage", "download", "summary", "notify"}

\* C19: while a run waits for the page fetch, a script download, the
\* summarization call or the notification call, the store holds what it held
\* when the run started: a call that never returns leaves it so for good.
C19_HungCallLeavesStore == AwaitingExternalCall => kv = kvAtStart

\* A CHANGED run waits for the notification call, the new build not yet stored
C19_Witness ==
    /\ pc = "notify"
    /\ branch = "CHANGED"
    /\ buildId # kv.id
    /\ kv = kvAtStart

\* ------------------------------------------------ completion order, claim

\* The name and content pairs of a map, whatever the order of its entries
AsMapping(obj) == {<<obj[i][1], obj[i][2]>> : i \in 1..Len(obj)}

\* The map the download tasks build when they complete in the order of the
\* paths, from the i-th on, the downloads of the given indexes failing
RECURSIVE FetchedInOrder(_, _, _, _, _)
FetchedInOrder(st, paths, rejectedIdx, i, files) ==
    IF i > Len(paths) THEN files
    ELSE FetchedInOrder(st, paths, rejectedIdx, i + 1,
                        fetchJsTask(files, paths[i], i \in rejectedIdx,
                                    ScriptBody(st, paths[i])))

\* fetchJsContents has returned the pairs that the completion in the order of
\* the paths gives
SameAsInOrder ==
    AsMapping(currentJsFiles)
        = AsMapping(FetchedInOrder(site, scriptPaths, failed, 1, <<>>))

\* fetchJsContents of the run has returned
Fetched == pending = {} /\ outcome # "ABORTED" /\ pc \notin {"idle", "fetchPage"}

\* C20 (as claimed): whatever the order in which the downloads of a run
\* complete, fetchJsContents returns the same map.
C20_OrderIndependent == Fetched => SameAsInOrder

\* C20 (amended): when the canonical names of the requested paths are pairwise
\* distinct, each task writes a key of its own and fetchJsContents returns the
\* same name and content pairs whatever the order of completion.
C20_OrderIndependentForDistinctNames ==
    (Fetched /\ DistinctNames) =>
        /\ Len(currentJsFiles) = Cardinality(Succeeded)
        /\ SameAsInOrder

\* Downloads of distinct names have completed out of the order of the paths:
\* the first entry of the map is the one of the second path
C20_Witness ==
    /\ Fetched
    /\ DistinctNames
    /\ Len(currentJsFiles) >= 2
    /\ failed = {}
    /\ currentJsFiles[1][1] = BaseName(scriptPaths[2])

====
